---- MODULE Spec2Model ----
(***************************************************************************)
(* FieldOps: the status/assignment lifecycle of service requests and       *)
(* tasks (service_requests/views.py, tasks/views.py and their serializers, *)
(* permissions and models), as a state machine over the two tables.        *)
(*                                                                         *)
(* Spec      every API handler is one atomic action (calls run one after   *)
(*           the other).                                                   *)
(* SpecConc  assign, set_status and upload_proof are split at their store  *)
(*           reads and writes and run by two request workers at once.      *)
(***************************************************************************)
EXTENDS Integers, FiniteSets, Sequences, TLC

\* ------------------------------------------------------------------ bounds
MaxRequests == 2
MaxTasks == 2
\* handler calls in one run
MaxCalls == 5
\* handler calls in one concurrent run
MaxConcCalls == 4
MaxUsers == 3
MaxRegCalls == 6

\* ------------------------------------------------------- users and inputs
\* The users table the runs start from (users/models.py: role, is_approved);
\* ids are the indices: one admin, two customers, a field worker who has
\* been approved and one who still awaits approval.
InitUsers ==
    << [role |-> "admin", is_approved |-> TRUE],
       [role |-> "customer", is_approved |-> TRUE],
       [role |-> "customer", is_approved |-> TRUE],
       [role |-> "field_worker", is_approved |-> TRUE],
       [role |-> "field_worker", is_approved |-> FALSE] >>
UserIds == DOMAIN InitUsers
UserRole == [u \in UserIds |-> InitUsers[u].role]
FieldWorkers == {u \in UserIds : UserRole[u] = "field_worker"}
CustomerIds == {u \in UserIds : UserRole[u] = "customer"}
\* a null foreign key / a null or omitted worker id
NoUser == 0
\* an id that resolves to no user row
MissingUser == Len(InitUsers) + 1
\* a null rating
NoRating == -1
RequestIds == 1..MaxRequests
TaskIds == 1..MaxTasks

TaskStatuses == {"assigned", "in_progress", "completed"}
RequestStatuses == {"open", "in_progress", "completed", "cancelled"}
\* notes after form parsing: blank or some text
NotesValues == {"", "done"}
\* a field left out of a partial payload
Absent == "<absent>"
NotesInputs == NotesValues \cup {Absent}
\* proof_upload in the payload: no file part, or a file
ProofInputs == {FALSE, TRUE}
RatingInputs == {NoRating, 0, 3, 6}
WorkerInputs == UserIds \cup {NoUser, MissingUser}
\* urgency in an update payload of a request
UrgencyInputs == {"high"}
\* description in an update payload of a request; location is a free-text
\* field of the same serializer and is written the same way
DescriptionInputs == {"edited"}
\* assigned_field_worker left out of an assign payload
OmittedWorker == -2
AssignInputs == WorkerInputs \cup {OmittedWorker}

VARIABLES
    users,          \* users_user: id -> [role, is_approved]
    requests,       \* service_requests: id -> row
    tasks,          \* tasks: id -> row
    nextRequestId,  \* auto-increment of service_requests
    nextTaskId,     \* auto-increment of tasks
    resp,           \* outcome of the last handler
    procs,          \* per request worker: position and in-memory objects
    calls           \* handler calls made so far

vars == <<users, requests, tasks, nextRequestId, nextTaskId, resp, procs, calls>>
store == <<users, requests, tasks, nextRequestId, nextTaskId>>

Procs == {1, 2}
Idle == [pc |-> "idle"]

\* ------------------------------------------------------------------ users
is_admin(u) == users[u].role = "admin"
is_field_worker(u) == users[u].role = "field_worker"
is_customer(u) == users[u].role = "customer"

\* ------------------------------------------------------------------- rows
NewRequest(customer) ==
    [customer |-> customer, assigned_field_worker |-> NoUser,
     description |-> "text", urgency |-> "medium", status |-> "open",
     rating |-> NoRating]

\* mutant: a new task starts in progress
NewTask_in_progress(r, w) ==
    [service_request |-> r, assigned_to |-> w, status |-> "in_progress",
     notes |-> "", proof_upload |-> FALSE]

NewTask(r, w) ==
    [service_request |-> r, assigned_to |-> w, status |-> "assigned",
     notes |-> "", proof_upload |-> FALSE]

\* A cancelled request is never produced by the API; it can only be a row
\* that was already in the table.
SeedRequests ==
    {<<>>} \cup {<<[NewRequest(c) EXCEPT !.status = "cancelled"]>> :
                    c \in {d \in CustomerIds : \A e \in CustomerIds : d <= e}}

Init ==
    /\ users = InitUsers
    /\ requests \in SeedRequests
    /\ nextRequestId = Len(requests) + 1
    /\ tasks = <<>>
    /\ nextTaskId = 1
    /\ resp = [op |-> "none", result |-> "none"]
    /\ procs = [p \in Procs |-> Idle]
    /\ calls = 0

\* the response of a handler: which handler answered, and how
Reply(op, result) == resp' = [op |-> op, result |-> result]

\* ------------------------------------------------- store helpers (ORM)
Insert(table, id, row) == table @@ (id :> row)
Delete(table, ids) == [i \in (DOMAIN table) \ ids |-> table[i]]

\* ----------------------------------------------------------- access policy
\* mutant: every caller sees every task
TaskQueryset_all(tbl, reqs, caller) == DOMAIN tbl

\* mutant: customers see no task
TaskQueryset_no_customer(tbl, reqs, caller) ==
    IF is_admin(caller) THEN DOMAIN tbl
    ELSE IF is_field_worker(caller)
         THEN {t \in DOMAIN tbl : tbl[t].assigned_to = caller}
         ELSE {}

\* TaskViewSet.get_queryset: the task rows the caller can see.
TaskQueryset(tbl, reqs, caller) ==
    IF is_admin(caller) THEN DOMAIN tbl
    ELSE IF is_field_worker(caller)
         THEN {t \in DOMAIN tbl : tbl[t].assigned_to = caller}
         ELSE {t \in DOMAIN tbl : reqs[tbl[t].service_request].customer = caller}

\* mutant: admins get no exemption
TaskObjectPermission_no_admin(caller, task, safe) ==
    IF safe THEN TRUE ELSE task.assigned_to = caller

\* IsAdminOrAssigneeOrReadOnly.has_object_permission
TaskObjectPermission(caller, task, safe) ==
    IF is_admin(caller) THEN TRUE
    ELSE IF safe THEN TRUE
    ELSE task.assigned_to = caller

\* get_object of TaskViewSet: queryset lookup (404), then object permission (403)
TaskGetObject(caller, t, safe) ==
    IF t \notin TaskQueryset(tasks, requests, caller) THEN "not_found"
    ELSE IF ~TaskObjectPermission(caller, tasks[t], safe) THEN "permission_denied"
    ELSE "ok"

\* mutant: every caller sees every request
RequestQueryset_all(reqs, caller) == DOMAIN reqs

\* ServiceRequestViewSet.get_queryset
RequestQueryset(reqs, caller) ==
    IF is_admin(caller) THEN DOMAIN reqs
    ELSE IF is_field_worker(caller) THEN DOMAIN reqs
    ELSE {r \in DOMAIN reqs : reqs[r].customer = caller}

\* IsOwnerOrAdmin.has_object_permission
RequestObjectPermission(caller, req) ==
    IF is_admin(caller) THEN TRUE ELSE req.customer = caller

\* get_object of ServiceRequestViewSet
RequestGetObject(reqs, caller, r) ==
    IF r \notin RequestQueryset(reqs, caller) THEN "not_found"
    ELSE IF ~RequestObjectPermission(caller, reqs[r]) THEN "permission_denied"
    ELSE "ok"

\* ------------------------------------------------------ task state machine
valid_transitions ==
    [assigned |-> {"in_progress"}, in_progress |-> {"completed"}, completed |-> {}]

\* mutant: the serializer accepts every status value
validate_status_any(current_status, value) == TRUE

\* mutant: the "allow same status" branch is missing
validate_status_strict(current_status, value) ==
    value \in valid_transitions[current_status]

\* mutant: only completed is final, every other move is accepted
validate_status_open(current_status, value) ==
    IF current_status = "completed" THEN value = "completed" ELSE TRUE

\* TaskStatusSerializer.validate_status: TRUE when the value is accepted
validate_status(current_status, value) ==
    IF value \in valid_transitions[current_status] THEN TRUE
    ELSE IF value = current_status THEN TRUE
    ELSE FALSE

\* the rows written by set_status once every check has passed: the task
\* with the new status, and the parent request after the completion sync
SetStatusTasks(tbl, t, task, value) ==
    [tbl EXCEPT ![t] = [task EXCEPT !.status = value]]

\* mutant: the sync only completes a request that is in_progress
CascadeRequests_in_progress_only(reqs, r, sr) ==
    IF sr.status = "in_progress"
    THEN [reqs EXCEPT ![r] = [sr EXCEPT !.status = "completed"]]
    ELSE reqs

CascadeRequests(reqs, r, sr) ==
    IF sr.status # "completed"
    THEN [reqs EXCEPT ![r] = [sr EXCEPT !.status = "completed"]]
    ELSE reqs

\* mutant: the proof-upload rule is missing
ProofRequired_never(caller, value) == FALSE

\* set_status lines 84-85: a non-admin may not set completed directly
ProofRequired(caller, value) == ~is_admin(caller) /\ value = "completed"

\* mutant: the proof-upload rule is applied before the serializer validates
SetStatus_proof_rule_first(caller, t, value) ==
    LET access == TaskGetObject(caller, t, FALSE) IN
    IF access # "ok"
    THEN /\ Reply("set_status", access)
         /\ UNCHANGED <<store, procs>>
    ELSE LET task == tasks[t] IN
         IF ProofRequired(caller, value)
         THEN /\ Reply("set_status", "proof_required")
              /\ UNCHANGED <<store, procs>>
         ELSE IF ~validate_status(task.status, value)
         THEN /\ Reply("set_status", "invalid_transition")
              /\ UNCHANGED <<store, procs>>
         ELSE /\ tasks' = SetStatusTasks(tasks, t, task, value)
              /\ requests' =
                    IF value = "completed" /\ task.status # "completed"
                    THEN CascadeRequests(requests, task.service_request,
                                         requests[task.service_request])
                    ELSE requests
              /\ Reply("set_status", "ok")
              /\ UNCHANGED <<users, nextRequestId, nextTaskId, procs>>

\* mutant: the proof-upload rule is applied after the save
SetStatus_save_first(caller, t, value) ==
    LET access == TaskGetObject(caller, t, FALSE) IN
    IF access # "ok"
    THEN /\ Reply("set_status", access)
         /\ UNCHANGED <<store, procs>>
    ELSE LET task == tasks[t] IN
         IF ~validate_status(task.status, value)
         THEN /\ Reply("set_status", "invalid_transition")
              /\ UNCHANGED <<store, procs>>
         ELSE /\ tasks' = SetStatusTasks(tasks, t, task, value)
              /\ requests' =
                    IF value = "completed" /\ task.status # "completed"
                    THEN CascadeRequests(requests, task.service_request,
                                         requests[task.service_request])
                    ELSE requests
              /\ Reply("set_status", IF ProofRequired(caller, value)
                                      THEN "proof_required" ELSE "ok")
              /\ UNCHANGED <<users, nextRequestId, nextTaskId, procs>>

\* TaskViewSet.set_status
SetStatus(caller, t, value) ==
    LET access == TaskGetObject(caller, t, FALSE) IN
    IF access # "ok"
    THEN /\ Reply("set_status", access)
         /\ UNCHANGED <<store, procs>>
    ELSE LET task == tasks[t]
             old_status == task.status
         IN
         IF ~validate_status(task.status, value)
         THEN /\ Reply("set_status", "invalid_transition")
              /\ UNCHANGED <<store, procs>>
         ELSE IF ~is_admin(caller) /\ task.assigned_to # caller
         THEN /\ Reply("set_status", "permission_denied")
              /\ UNCHANGED <<store, procs>>
         ELSE IF ProofRequired(caller, value)
         THEN /\ Reply("set_status", "proof_required")
              /\ UNCHANGED <<store, procs>>
         ELSE /\ tasks' = SetStatusTasks(tasks, t, task, value)
              /\ requests' =
                    IF value = "completed" /\ old_status # "completed"
                    THEN CascadeRequests(requests, task.service_request,
                                         requests[task.service_request])
                    ELSE requests
              /\ Reply("set_status", "ok")
              /\ UNCHANGED <<users, nextRequestId, nextTaskId, procs>>

\* TaskProofUploadSerializer.save on a partial payload: fields that are
\* present overwrite the row's, the others are kept
ProofSave(task, proof, notes) ==
    [task EXCEPT !.proof_upload = IF proof THEN TRUE ELSE @,
                 !.notes = IF notes = Absent THEN @ ELSE notes]

\* mutant: only a proof file completes the task, notes do not
AutoComplete_file_only(caller, task) ==
    /\ ~is_admin(caller)
    /\ task.status # "completed"
    /\ task.proof_upload

\* mutant: the completion is not limited to tasks that are not completed
AutoComplete_again(caller, task) ==
    /\ ~is_admin(caller)
    /\ (task.proof_upload \/ task.notes # "")

\* mutant: the completion is not limited to non-admin callers
AutoComplete_any_caller(caller, task) ==
    /\ task.status # "completed"
    /\ (task.proof_upload \/ task.notes # "")

\* upload_proof, lines 118-120: does the call complete the task
AutoComplete(caller, task) ==
    /\ ~is_admin(caller)
    /\ task.status # "completed"
    /\ (task.proof_upload \/ task.notes # "")

\* TaskViewSet.upload_proof
UploadProof(caller, t, proof, notes) ==
    LET access == TaskGetObject(caller, t, FALSE) IN
    IF access # "ok"
    THEN /\ Reply("upload_proof", access)
         /\ UNCHANGED <<store, procs>>
    ELSE IF ~is_admin(caller) /\ tasks[t].assigned_to # caller
    THEN /\ Reply("upload_proof", "permission_denied")
         /\ UNCHANGED <<store, procs>>
    ELSE LET saved == ProofSave(tasks[t], proof, notes) IN
         IF AutoComplete(caller, saved)
         THEN /\ tasks' = [tasks EXCEPT ![t] = [saved EXCEPT !.status = "completed"]]
              /\ requests' = CascadeRequests(requests, saved.service_request,
                                             requests[saved.service_request])
              /\ Reply("upload_proof", "ok")
              /\ UNCHANGED <<users, nextRequestId, nextTaskId, procs>>
         ELSE /\ tasks' = [tasks EXCEPT ![t] = saved]
              /\ Reply("upload_proof", "ok")
              /\ UNCHANGED <<users, requests, nextRequestId, nextTaskId, procs>>

\* -------------------------------------------------------------- assignment
\* mutant: the approval flag is not looked at
validate_assigned_field_worker_any(usrs, value) ==
    IF value = NoUser THEN "ok"
    ELSE IF value \notin DOMAIN usrs THEN "user_missing"
    ELSE IF usrs[value].role # "field_worker" THEN "not_field_worker"
    ELSE "ok"

\* ServiceRequestAssignmentSerializer.validate_assigned_field_worker
validate_assigned_field_worker(usrs, value) ==
    IF value = NoUser THEN "ok"
    ELSE IF value \notin DOMAIN usrs THEN "user_missing"
    ELSE IF usrs[value].role # "field_worker" THEN "not_field_worker"
    ELSE IF ~usrs[value].is_approved THEN "not_approved"
    ELSE "ok"

\* the lookup of Task.objects.get_or_create(service_request=, assigned_to=)
GetOrCreateMatches(tbl, r, w) ==
    {t \in DOMAIN tbl : tbl[t].service_request = r /\ tbl[t].assigned_to = w}

\* mutant: an unassignment puts the request back to open
AssignedRequest_reopen(sr, w) ==
    [sr EXCEPT !.assigned_field_worker = w,
               !.status = IF w = NoUser THEN "open"
                          ELSE IF sr.status = "open" THEN "in_progress" ELSE @]

\* mutant: an open request is put in progress by an unassignment too
AssignedRequest_any_call(sr, w) ==
    [sr EXCEPT !.assigned_field_worker = w,
               !.status = IF sr.status = "open" THEN "in_progress" ELSE @]

\* mutant: every assignment of a worker puts the request in progress
AssignedRequest_any_status(sr, w) ==
    [sr EXCEPT !.assigned_field_worker = w,
               !.status = IF w # NoUser THEN "in_progress" ELSE @]

\* assign, lines 114 and 126-133: the request row as it is saved
AssignedRequest(sr, w) ==
    [sr EXCEPT !.assigned_field_worker = w,
               !.status = IF sr.status = "open" /\ w # NoUser
                          THEN "in_progress" ELSE @]

\* mutant: customers may assign too
AssignPermitted_customers(caller) == is_admin(caller) \/ is_customer(caller)

\* assign, lines 98-100: only admins can assign
AssignPermitted(caller) == is_admin(caller)

\* mutant: a task that is found is reset to a fresh one
GetOrCreate_reset(tsks, nextId, r, w) ==
    LET found == GetOrCreateMatches(tsks, r, w) IN
    IF found = {} THEN Insert(tsks, nextId, NewTask(r, w))
    ELSE [t \in DOMAIN tsks |-> IF t \in found THEN NewTask(r, w) ELSE tsks[t]]

\* the tasks table after Task.objects.get_or_create found at most one row
GetOrCreate(tsks, nextId, r, w) ==
    IF GetOrCreateMatches(tsks, r, w) = {}
    THEN Insert(tsks, nextId, NewTask(r, w))
    ELSE tsks

\* ServiceRequestViewSet.assign as a function of the store: the response
\* and the tables after the call
AssignOutcome(reqs, tsks, nextId, caller, r, w) ==
    LET same(result) ==
            [result |-> result, requests |-> reqs, tasks |-> tsks, nextTaskId |-> nextId]
        access == RequestGetObject(reqs, caller, r)
        \* a field left out of the payload is not validated
        valid == IF w = OmittedWorker THEN "ok"
                 ELSE validate_assigned_field_worker(users, w)
        \* validated_data.get('assigned_field_worker')
        id == IF w = OmittedWorker THEN NoUser ELSE w
        after == GetOrCreate(tsks, nextId, r, id)
    IN
    IF ~AssignPermitted(caller) THEN same("permission_denied")
    ELSE IF access # "ok" THEN same(access)
    ELSE IF valid # "ok" THEN same(valid)
    ELSE IF id # NoUser
    THEN IF Cardinality(GetOrCreateMatches(tsks, r, id)) > 1
         THEN \* MultipleObjectsReturned is not caught: nothing was saved yet
              same("internal")
         ELSE [result |-> "ok",
               requests |-> [reqs EXCEPT ![r] = AssignedRequest(reqs[r], id)],
               tasks |-> after,
               nextTaskId |-> IF nextId \in DOMAIN after THEN nextId + 1 ELSE nextId]
    ELSE [result |-> "ok",
          requests |-> [reqs EXCEPT ![r] = AssignedRequest(reqs[r], NoUser)],
          tasks |-> tsks,
          nextTaskId |-> nextId]

Assign(caller, r, w) ==
    LET out == AssignOutcome(requests, tasks, nextTaskId, caller, r, w) IN
    /\ out.nextTaskId <= MaxTasks + 1
    /\ requests' = out.requests
    /\ tasks' = out.tasks
    /\ nextTaskId' = out.nextTaskId
    /\ Reply("assign", out.result)
    /\ UNCHANGED <<users, nextRequestId, procs>>

\* ------------------------------------------------------------------ rating
\* mutant: only the upper end of the range is checked
validate_rating_upper(value) ==
    IF value = NoRating THEN TRUE ELSE value <= 5

\* mutant: only the lower end of the range is checked
validate_rating_lower(value) ==
    IF value = NoRating THEN TRUE ELSE 1 <= value

\* ServiceRequestRatingSerializer.validate_rating: TRUE when accepted
validate_rating(value) ==
    IF value = NoRating THEN TRUE
    ELSE IF ~(1 <= value /\ value <= 5) THEN FALSE
    ELSE TRUE

\* mutant: every caller who can load the request may rate it
RatePermitted_any(caller, req) == TRUE

\* rate, line 85: only the customer who owns the request may rate it
RatePermitted(caller, req) == is_customer(caller) /\ req.customer = caller

\* ServiceRequestViewSet.rate
Rate(caller, r, value) ==
    LET access == RequestGetObject(requests, caller, r) IN
    IF access # "ok"
    THEN /\ Reply("rate", access)
         /\ UNCHANGED <<store, procs>>
    ELSE IF ~RatePermitted(caller, requests[r])
    THEN /\ Reply("rate", "permission_denied")
         /\ UNCHANGED <<store, procs>>
    ELSE IF requests[r].status # "completed"
    THEN /\ Reply("rate", "rating_not_completed")
         /\ UNCHANGED <<store, procs>>
    ELSE IF ~validate_rating(value)
    THEN /\ Reply("rate", "rating_range")
         /\ UNCHANGED <<store, procs>>
    ELSE /\ requests' = [requests EXCEPT ![r].rating = value]
         /\ Reply("rate", "ok")
         /\ UNCHANGED <<users, tasks, nextRequestId, nextTaskId, procs>>

\* ---------------------------------------------------- create, update, delete
\* ServiceRequestViewSet.perform_create
CreateRequest(caller) ==
    IF ~is_customer(caller)
    THEN /\ Reply("create", "permission_denied")
         /\ UNCHANGED <<store, procs>>
    ELSE /\ nextRequestId <= MaxRequests
         /\ requests' = Insert(requests, nextRequestId, NewRequest(caller))
         /\ nextRequestId' = nextRequestId + 1
         /\ Reply("create", "ok")
         /\ UNCHANGED <<users, tasks, nextTaskId, procs>>

\* ServiceRequestViewSet.destroy; Task.service_request is on_delete=CASCADE
DestroyRequest(caller, r) ==
    LET access == RequestGetObject(requests, caller, r) IN
    IF access # "ok"
    THEN /\ Reply("destroy", access)
         /\ UNCHANGED <<store, procs>>
    ELSE /\ requests' = Delete(requests, {r})
         /\ tasks' = Delete(tasks, {t \in DOMAIN tasks : tasks[t].service_request = r})
         /\ Reply("destroy", "ok")
         /\ UNCHANGED <<users, nextRequestId, nextTaskId, procs>>

\* mutant: status is writable through the update serializer
UpdatedRequest_reopen(req, description, urgency) ==
    [req EXCEPT !.description = description, !.urgency = urgency,
                !.status = "open"]

\* the row saved by ServiceRequestCreateUpdateSerializer: of the model's
\* fields only description, location and urgency are writable
UpdatedRequest(req, description, urgency) ==
    [req EXCEPT !.description = description, !.urgency = urgency]

\* ServiceRequestViewSet.update / partial_update with
\* ServiceRequestCreateUpdateSerializer (description, location, urgency),
\* here a PATCH of description and urgency
UpdateRequest(caller, r, description, urgency) ==
    LET access == RequestGetObject(requests, caller, r) IN
    IF access # "ok"
    THEN /\ Reply("update", access)
         /\ UNCHANGED <<store, procs>>
    ELSE /\ requests' = [requests EXCEPT ![r] = UpdatedRequest(@, description, urgency)]
         /\ Reply("update", "ok")
         /\ UNCHANGED <<users, tasks, nextRequestId, nextTaskId, procs>>

\* TaskViewSet.update / partial_update with TaskCreateUpdateSerializer
\* (service_request, assigned_to, notes), here a PATCH of service_request
\* and assigned_to; a field left out of a PATCH keeps its value
UpdateTask(caller, t, r, w) ==
    LET access == TaskGetObject(caller, t, FALSE) IN
    IF access # "ok"
    THEN /\ Reply("update_task", access)
         /\ UNCHANGED <<store, procs>>
    ELSE IF r \notin DOMAIN requests
    THEN /\ Reply("update_task", "invalid_pk")
         /\ UNCHANGED <<store, procs>>
    ELSE /\ tasks' = [tasks EXCEPT ![t] = [@ EXCEPT !.service_request = r,
                                                    !.assigned_to = w]]
         /\ Reply("update_task", "ok")
         /\ UNCHANGED <<users, requests, nextRequestId, nextTaskId, procs>>

\* TaskViewSet.destroy
DestroyTask(caller, t) ==
    LET access == TaskGetObject(caller, t, FALSE) IN
    IF access # "ok"
    THEN /\ Reply("destroy_task", access)
         /\ UNCHANGED <<store, procs>>
    ELSE /\ tasks' = Delete(tasks, {t})
         /\ Reply("destroy_task", "ok")
         /\ UNCHANGED <<users, requests, nextRequestId, nextTaskId, procs>>

\* TaskViewSet.retrieve: get_object with a safe method
RetrieveTask(caller, t) ==
    /\ Reply("retrieve_task", TaskGetObject(caller, t, TRUE))
    /\ UNCHANGED <<store, procs>>

\* ServiceRequestViewSet.retrieve
RetrieveRequest(caller, r) ==
    /\ Reply("retrieve", RequestGetObject(requests, caller, r))
    /\ UNCHANGED <<store, procs>>

\* users/views.py approve_field_worker, reject_field_worker
SetApproval(op, caller, u, flag) ==
    IF ~is_admin(caller)
    THEN /\ Reply(op, "permission_denied")
         /\ UNCHANGED <<store, procs>>
    ELSE IF u \notin DOMAIN users \/ users[u].role # "field_worker"
    THEN /\ Reply(op, "not_found")
         /\ UNCHANGED <<store, procs>>
    ELSE /\ users' = [users EXCEPT ![u].is_approved = flag]
         /\ Reply(op, "ok")
         /\ UNCHANGED <<requests, tasks, nextRequestId, nextTaskId, procs>>

approve_field_worker(caller, u) == SetApproval("approve", caller, u, TRUE)
reject_field_worker(caller, u) == SetApproval("reject", caller, u, FALSE)

\* ------------------------------------------------------------ sequential
\* assigned_to in an update payload: the runs hand tasks to field workers
AssigneeInputs == FieldWorkers

\* one handler call of a run
Call(handler) ==
    /\ calls < MaxCalls
    /\ calls' = calls + 1
    /\ handler

Next ==
    \/ \E c \in UserIds : Call(CreateRequest(c))
    \/ \E c \in UserIds, r \in RequestIds, w \in AssignInputs : Call(Assign(c, r, w))
    \/ \E c \in UserIds, t \in TaskIds, v \in TaskStatuses : Call(SetStatus(c, t, v))
    \/ \E c \in UserIds, t \in TaskIds, f \in ProofInputs, n \in NotesInputs :
            Call(UploadProof(c, t, f, n))
    \/ \E c \in UserIds, r \in RequestIds, v \in RatingInputs : Call(Rate(c, r, v))
    \/ \E c \in UserIds, r \in RequestIds, d \in DescriptionInputs,
          u \in UrgencyInputs : Call(UpdateRequest(c, r, d, u))
    \/ \E c \in UserIds, r \in RequestIds : Call(DestroyRequest(c, r))
    \/ \E c \in UserIds, t \in TaskIds, r \in RequestIds, w \in AssigneeInputs :
            Call(UpdateTask(c, t, r, w))
    \/ \E c \in UserIds, t \in TaskIds : Call(DestroyTask(c, t))
    \/ \E c \in UserIds, t \in TaskIds : Call(RetrieveTask(c, t))
    \/ \E c \in UserIds, r \in RequestIds : Call(RetrieveRequest(c, r))
    \/ \E c \in UserIds, u \in WorkerInputs \ {NoUser} : Call(approve_field_worker(c, u))
    \/ \E c \in UserIds, u \in WorkerInputs \ {NoUser} : Call(reject_field_worker(c, u))

Spec == Init /\ [][Next]_vars

\* ------------------------------------------------------------- concurrent
\* The handlers take no lock and open no transaction: each ORM statement
\* (a SELECT of get_object, a whole-row UPDATE of save(), an INSERT) is one
\* step, and a handler works on the rows it read at its start.
Finish(p, op, outcome) ==
    /\ procs' = [procs EXCEPT ![p] = Idle]
    /\ Reply(op, outcome)

Goto(p, label) == procs' = [procs EXCEPT ![p].pc = label]

\* set_status lines 75-88: get_object, the serializer and the role checks,
\* all against the rows read by get_object (task and, by select_related,
\* its service request)
SetStatusBegin(p, caller, t, value) ==
    /\ procs[p].pc = "idle"
    /\ LET access == TaskGetObject(caller, t, FALSE) IN
       IF access # "ok"
       THEN /\ Reply("set_status", access)
            /\ UNCHANGED <<store, procs>>
       ELSE IF ~validate_status(tasks[t].status, value)
       THEN /\ Reply("set_status", "invalid_transition")
            /\ UNCHANGED <<store, procs>>
       ELSE IF ProofRequired(caller, value)
       THEN /\ Reply("set_status", "proof_required")
            /\ UNCHANGED <<store, procs>>
       ELSE /\ procs' = [procs EXCEPT ![p] =
                    [pc |-> "set_status_save", caller |-> caller, t |-> t,
                     task |-> tasks[t], sr |-> requests[tasks[t].service_request],
                     value |-> value]]
            /\ UNCHANGED <<store, resp>>

\* set_status lines 90-94: serializer.save()
SetStatusSave(p) ==
    /\ procs[p].pc = "set_status_save"
    /\ LET me == procs[p] IN
       /\ tasks' = SetStatusTasks(tasks, me.t, me.task, me.value)
       /\ IF me.value = "completed" /\ me.task.status # "completed"
          THEN Goto(p, "set_status_cascade") /\ UNCHANGED resp
          ELSE Finish(p, "set_status", "ok")
    /\ UNCHANGED <<users, requests, nextRequestId, nextTaskId>>

\* set_status lines 95-98
SetStatusCascade(p) ==
    /\ procs[p].pc = "set_status_cascade"
    /\ LET me == procs[p] IN
       requests' = CascadeRequests(requests, me.task.service_request, me.sr)
    /\ Finish(p, "set_status", "ok")
    /\ UNCHANGED <<users, tasks, nextRequestId, nextTaskId>>

\* upload_proof lines 106-112
UploadProofBegin(p, caller, t, proof, notes) ==
    /\ procs[p].pc = "idle"
    /\ LET access == TaskGetObject(caller, t, FALSE) IN
       IF access # "ok"
       THEN /\ Reply("upload_proof", access)
            /\ UNCHANGED <<store, procs>>
       ELSE /\ procs' = [procs EXCEPT ![p] =
                    [pc |-> "upload_proof_save", caller |-> caller, t |-> t,
                     task |-> tasks[t], sr |-> requests[tasks[t].service_request],
                     proof |-> proof, notes |-> notes]]
            /\ UNCHANGED <<store, resp>>

\* upload_proof lines 114-120: serializer.save()
UploadProofSave(p) ==
    /\ procs[p].pc = "upload_proof_save"
    /\ LET me == procs[p]
           saved == ProofSave(me.task, me.proof, me.notes)
       IN
       /\ tasks' = [tasks EXCEPT ![me.t] = saved]
       /\ IF AutoComplete(me.caller, saved)
          THEN /\ procs' = [procs EXCEPT ![p].pc = "upload_proof_complete",
                                         ![p].task = saved]
               /\ UNCHANGED resp
          ELSE Finish(p, "upload_proof", "ok")
    /\ UNCHANGED <<users, requests, nextRequestId, nextTaskId>>

\* upload_proof lines 121-122
UploadProofComplete(p) ==
    /\ procs[p].pc = "upload_proof_complete"
    /\ LET me == procs[p] IN
       tasks' = [tasks EXCEPT ![me.t] = [me.task EXCEPT !.status = "completed"]]
    /\ Goto(p, "upload_proof_cascade")
    /\ UNCHANGED <<users, requests, nextRequestId, nextTaskId, resp>>

\* upload_proof lines 125-128
UploadProofCascade(p) ==
    /\ procs[p].pc = "upload_proof_cascade"
    /\ LET me == procs[p] IN
       requests' = CascadeRequests(requests, me.task.service_request, me.sr)
    /\ Finish(p, "upload_proof", "ok")
    /\ UNCHANGED <<users, tasks, nextRequestId, nextTaskId>>

\* assign lines 98-108: the admin check, get_object and the serializer
AssignBegin(p, caller, r, w) ==
    /\ procs[p].pc = "idle"
    /\ IF ~AssignPermitted(caller)
       THEN /\ Reply("assign", "permission_denied")
            /\ UNCHANGED <<store, procs>>
       ELSE LET access == RequestGetObject(requests, caller, r) IN
       IF access # "ok"
       THEN /\ Reply("assign", access)
            /\ UNCHANGED <<store, procs>>
       ELSE LET valid == validate_assigned_field_worker(users, w) IN
       IF valid # "ok"
       THEN /\ Reply("assign", valid)
            /\ UNCHANGED <<store, procs>>
       ELSE /\ procs' = [procs EXCEPT ![p] =
                    [pc |-> IF w # NoUser THEN "assign_get" ELSE "assign_save",
                     caller |-> caller, r |-> r, sr |-> requests[r], w |-> w]]
            /\ UNCHANGED <<store, resp>>

\* assign lines 117-121, the SELECT of get_or_create
AssignGet(p) ==
    /\ procs[p].pc = "assign_get"
    /\ LET me == procs[p]
           found == GetOrCreateMatches(tasks, me.r, me.w)
       IN
       IF Cardinality(found) > 1 THEN Finish(p, "assign", "internal")
       ELSE IF found = {} THEN Goto(p, "assign_create") /\ UNCHANGED resp
       ELSE Goto(p, "assign_save") /\ UNCHANGED resp
    /\ UNCHANGED store

\* assign lines 117-121, the INSERT of get_or_create
AssignCreate(p) ==
    /\ procs[p].pc = "assign_create"
    /\ nextTaskId <= MaxTasks
    /\ LET me == procs[p] IN
       tasks' = Insert(tasks, nextTaskId, NewTask(me.r, me.w))
    /\ nextTaskId' = nextTaskId + 1
    /\ Goto(p, "assign_save")
    /\ UNCHANGED <<users, requests, nextRequestId, resp>>

\* assign line 128: the first service_request.save()
AssignSave(p) ==
    /\ procs[p].pc = "assign_save"
    /\ LET me == procs[p] IN
       /\ requests' = [requests EXCEPT ![me.r] =
                          [me.sr EXCEPT !.assigned_field_worker = me.w]]
       /\ IF me.sr.status = "open" /\ me.w # NoUser
          THEN Goto(p, "assign_status") /\ UNCHANGED resp
          ELSE Finish(p, "assign", "ok")
    /\ UNCHANGED <<users, tasks, nextRequestId, nextTaskId>>

\* assign lines 131-133: the second service_request.save()
AssignStatus(p) ==
    /\ procs[p].pc = "assign_status"
    /\ LET me == procs[p] IN
       requests' = [requests EXCEPT ![me.r] = AssignedRequest(me.sr, me.w)]
    /\ Finish(p, "assign", "ok")
    /\ UNCHANGED <<users, tasks, nextRequestId, nextTaskId>>

\* the callers and payloads of the concurrent runs: the admin and the
\* approved field worker
ConcWorkers == {w \in FieldWorkers : InitUsers[w].is_approved}
ConcCallers == {c \in UserIds : UserRole[c] = "admin"} \cup ConcWorkers
ConcTargets == {NoUser} \cup ConcWorkers
ConcNotes == {Absent, "done"}

\* a call that runs step by step
Begin(handler) ==
    /\ calls < MaxConcCalls
    /\ calls' = calls + 1
    /\ handler

Step(handler) ==
    /\ handler
    /\ UNCHANGED calls

NextConc ==
    \/ \E c \in CustomerIds : Begin(CreateRequest(c))
    \/ \E p \in Procs, c \in ConcCallers, r \in RequestIds, w \in ConcTargets :
            Begin(AssignBegin(p, c, r, w))
    \/ \E p \in Procs : Step(AssignGet(p))
    \/ \E p \in Procs : Step(AssignCreate(p))
    \/ \E p \in Procs : Step(AssignSave(p))
    \/ \E p \in Procs : Step(AssignStatus(p))
    \/ \E p \in Procs, c \in ConcCallers, t \in TaskIds, v \in TaskStatuses :
            Begin(SetStatusBegin(p, c, t, v))
    \/ \E p \in Procs : Step(SetStatusSave(p))
    \/ \E p \in Procs : Step(SetStatusCascade(p))
    \/ \E p \in Procs, c \in ConcCallers, t \in TaskIds, f \in ProofInputs,
          n \in ConcNotes : Begin(UploadProofBegin(p, c, t, f, n))
    \/ \E p \in Procs : Step(UploadProofSave(p))
    \/ \E p \in Procs : Step(UploadProofComplete(p))
    \/ \E p \in Procs : Step(UploadProofCascade(p))
    \/ \E c \in ConcCallers, u \in ConcWorkers : Begin(reject_field_worker(c, u))

SpecConc == Init /\ [][NextConc]_vars

\* -------------------------------------------------------------- dashboards
\* QuerySet.count(): the number of rows a query selects
CountRows(ids) == Cardinality(ids)

\* dashboard.views.admin_overview behind IsAdminUserRole
admin_overview(caller) ==
    IF ~is_admin(caller) THEN [code |-> 403]
    ELSE LET UsersWith(role) ==
                CountRows({u \in DOMAIN users : users[u].role = role})
             RequestsIn(st) ==
                CountRows({r \in DOMAIN requests : requests[r].status = st})
             TasksIn(st) ==
                CountRows({t \in DOMAIN tasks : tasks[t].status = st})
         IN [code |-> 200,
             users_total |-> CountRows(DOMAIN users),
             users_admins |-> UsersWith("admin"),
             users_workers |-> UsersWith("field_worker"),
             users_customers |-> UsersWith("customer"),
             service_requests_total |-> CountRows(DOMAIN requests),
             service_requests_open |-> RequestsIn("open"),
             service_requests_in_progress |-> RequestsIn("in_progress"),
             service_requests_completed |-> RequestsIn("completed"),
             tasks_total |-> CountRows(DOMAIN tasks),
             tasks_assigned |-> TasksIn("assigned"),
             tasks_in_progress |-> TasksIn("in_progress"),
             tasks_completed |-> TasksIn("completed")]

\* mutant: the worker's counts are taken over the whole task table
worker_summary_all(caller) ==
    IF ~is_field_worker(caller) THEN [code |-> 403]
    ELSE LET Mine(st) ==
                CountRows({t \in DOMAIN tasks : tasks[t].status = st})
         IN [code |-> 200,
             assigned |-> Mine("assigned"),
             in_progress |-> Mine("in_progress"),
             completed |-> Mine("completed")]

\* dashboard.views.worker_summary
worker_summary(caller) ==
    IF ~is_field_worker(caller) THEN [code |-> 403]
    ELSE LET Mine(st) ==
                CountRows({t \in DOMAIN tasks : /\ tasks[t].assigned_to = caller
                                                 /\ tasks[t].status = st})
         IN [code |-> 200,
             assigned |-> Mine("assigned"),
             in_progress |-> Mine("in_progress"),
             completed |-> Mine("completed")]

\* dashboard.views.customer_summary
customer_summary(caller) ==
    IF ~is_customer(caller) THEN [code |-> 403]
    ELSE LET Mine(st) ==
                CountRows({r \in DOMAIN requests : /\ requests[r].customer = caller
                                                    /\ requests[r].status = st})
         IN [code |-> 200,
             requests_total |->
                CountRows({r \in DOMAIN requests : requests[r].customer = caller}),
             requests_open |-> Mine("open"),
             requests_in_progress |-> Mine("in_progress"),
             requests_completed |-> Mine("completed")]

DashboardViews == {"admin_overview", "worker_summary", "customer_summary"}

\* a GET of one of the three dashboards: the store is read, not written
Dashboard(caller, view) ==
    /\ LET out == CASE view = "admin_overview" -> admin_overview(caller)
                     [] view = "worker_summary" -> worker_summary(caller)
                     [] view = "customer_summary" -> customer_summary(caller)
       IN Reply(view, IF out.code = 200 THEN "ok" ELSE "permission_denied")
    /\ UNCHANGED <<store, procs>>

\* the sequential runs with the dashboards read in between
NextDash ==
    \/ Next
    \/ \E c \in UserIds, v \in DashboardViews : Call(Dashboard(c, v))

SpecDash == Init /\ [][NextDash]_vars

\* ----------------------------------------------------------- registration
\* User.ROLE_CHOICES
Roles == {"admin", "field_worker", "customer"}

\* mutant: every registered user starts approved
RegisteredUser_approved(role) == [role |-> role, is_approved |-> TRUE]

\* UserRegistrationSerializer.create: create_user leaves is_approved at the
\* model default False; every role but field_worker is then approved
RegisteredUser(role) == [role |-> role, is_approved |-> role # "field_worker"]

\* UserRegistrationView.create (AllowAny)
Register(role) ==
    /\ Len(users) < MaxUsers
    /\ users' = Append(users, RegisteredUser(role))
    /\ Reply("register", "ok")
    /\ UNCHANGED <<requests, tasks, nextRequestId, nextTaskId, procs>>

\* the runs that start from an empty users table
InitReg ==
    /\ users = <<>>
    /\ requests = <<>>
    /\ nextRequestId = 1
    /\ tasks = <<>>
    /\ nextTaskId = 1
    /\ resp = [op |-> "none", result |-> "none"]
    /\ procs = [p \in Procs |-> Idle]
    /\ calls = 0

RegCall(handler) ==
    /\ calls < MaxRegCalls
    /\ calls' = calls + 1
    /\ handler

\* user ids in the payloads of these runs: a registered user, an id not
\* (yet) in the table, or null
RegUserInputs == (1..MaxUsers) \cup {NoUser}

NextReg ==
    \/ \E role \in Roles : RegCall(Register(role))
    \/ \E c \in DOMAIN users : RegCall(CreateRequest(c))
    \/ \E c \in DOMAIN users, r \in RequestIds, w \in RegUserInputs :
            RegCall(Assign(c, r, w))
    \/ \E c \in DOMAIN users, u \in RegUserInputs \ {NoUser} :
            RegCall(approve_field_worker(c, u))
    \/ \E c \in DOMAIN users, u \in RegUserInputs \ {NoUser} :
            RegCall(reject_field_worker(c, u))

SpecReg == InitReg /\ [][NextReg]_vars

TypeOK ==
    /\ DOMAIN requests \subseteq RequestIds
    /\ DOMAIN tasks \subseteq TaskIds
    /\ \A r \in DOMAIN requests :
          /\ requests[r].customer \in CustomerIds
          /\ requests[r].assigned_field_worker \in UserIds \cup {NoUser}
          /\ requests[r].status \in RequestStatuses
          /\ requests[r].urgency \in {"medium"} \cup UrgencyInputs
          /\ requests[r].description \in {"text"} \cup DescriptionInputs
    /\ \A t \in DOMAIN tasks :
          /\ tasks[t].service_request \in DOMAIN requests
          /\ tasks[t].status \in TaskStatuses

\* ==================================================================== claims
StatusRank == [assigned |-> 1, in_progress |-> 2, completed |-> 3]
TasksOf(tbl, r) == {t \in DOMAIN tbl : tbl[t].service_request = r}
OpenTasksOfPair(tbl, r, w) ==
    {t \in DOMAIN tbl : /\ tbl[t].service_request = r
                        /\ tbl[t].assigned_to = w
                        /\ tbl[t].status # "completed"}

\* C1: under any sequence of handler calls a task's status only moves
\* forward along assigned -> in_progress -> completed: it never returns to
\* assigned once it has left it, and never changes once it is completed.
C1_StatusOnlyForward ==
    [][\A t \in (DOMAIN tasks) \cap (DOMAIN tasks') :
          StatusRank[tasks'[t].status] >= StatusRank[tasks[t].status]]_vars

\* every task is completed and the last call was a set_status that asked
\* for a move out of completed and was refused
C1_Witness ==
    /\ DOMAIN tasks # {}
    /\ \A t \in DOMAIN tasks : tasks[t].status = "completed"
    /\ resp = [op |-> "set_status", result |-> "invalid_transition"]

\* C2: whenever a call moves a task from a non-completed status to
\* completed, the task's parent request is completed right after that call,
\* whatever its status was before.
C2_CompletionCascades ==
    [][\A t \in (DOMAIN tasks) \cap (DOMAIN tasks') :
          (tasks[t].status # "completed" /\ tasks'[t].status = "completed")
              => requests'[tasks'[t].service_request].status = "completed"]_vars

\* an admin's set_status has completed a task and its parent request
C2_Witness ==
    /\ resp = [op |-> "set_status", result |-> "ok"]
    /\ \E t \in DOMAIN tasks :
          /\ tasks[t].status = "completed"
          /\ tasks[t].notes = "" /\ ~tasks[t].proof_upload
          /\ requests[tasks[t].service_request].status = "completed"

C4_AssignOpenRequest ==
    [][\A c \in UserIds, r \in RequestIds, w \in FieldWorkers :
          ( /\ r \in DOMAIN requests
            /\ is_admin(c)
            /\ users[w].is_approved
            /\ requests[r].status = "open"
            /\ Assign(c, r, w) )
          => /\ requests'[r].status = "in_progress"
             /\ requests'[r].assigned_field_worker = w
             /\ \E t \in DOMAIN tasks' :
                   /\ TasksOf(tasks', r) = {t}
                   /\ tasks'[t].assigned_to = w
                   /\ tasks'[t].status = "assigned"]_vars

\* C5: assigning the same approved worker W twice in a row to a request R
\* that was open leaves exactly one non-completed task for (R, W), and the
\* second call changes neither R nor any task.
C5_AssignIdempotent ==
    [][\A c \in UserIds, r \in RequestIds, w \in FieldWorkers :
          ( /\ r \in DOMAIN requests
            /\ is_admin(c)
            /\ users[w].is_approved
            /\ requests[r].status = "open"
            /\ Assign(c, r, w) )
          => LET again == AssignOutcome(requests', tasks', nextTaskId', c, r, w) IN
             /\ again.requests = requests'
             /\ again.tasks = tasks'
             /\ Cardinality(OpenTasksOfPair(again.tasks, r, w)) = 1]_vars

\* C6: concurrent assign calls of the same worker to the same request never
\* leave two non-completed tasks for that pair.
C6_NoDuplicateOpenTask ==
    \A r \in DOMAIN requests, w \in FieldWorkers :
        Cardinality(OpenTasksOfPair(tasks, r, w)) <= 1

\* C7: under concurrent set_status and upload_proof calls every status
\* write is legal from the status stored at the moment of the write: a
\* completed task stays completed and no task is put back to assigned.
C7_WritesAreLegal ==
    [][\A t \in (DOMAIN tasks) \cap (DOMAIN tasks') :
          /\ tasks[t].status = "completed" => tasks'[t].status = "completed"
          /\ tasks'[t].status = "assigned" => tasks[t].status = "assigned"]_vars

\* C8: in every reachable state a request's rating is none or in 1..5, and
\* it is none whenever the request is not completed.
C8_RatingInvariant ==
    \A r \in DOMAIN requests :
        /\ requests[r].rating = NoRating \/ requests[r].rating \in 1..5
        /\ requests[r].status # "completed" => requests[r].rating = NoRating

\* a request was rated, and the last call was a rate refused for its value
C8_Witness ==
    /\ resp = [op |-> "rate", result |-> "rating_range"]
    /\ \E r \in DOMAIN requests : requests[r].rating \in 1..5

LegalMove(from, to) ==
    \/ from = "assigned" /\ to = "in_progress"
    \/ from = "in_progress" /\ to = "completed"
    \/ from = to

C12_EmptyUploadKeepsStatus ==
    [][\A c \in UserIds, t \in TaskIds, n \in {Absent, ""} :
          ( /\ t \in DOMAIN tasks
            /\ UserRole[c] # "admin"
            /\ UploadProof(c, t, FALSE, n) )
          => /\ tasks'[t].status = tasks[t].status
             /\ requests'[tasks[t].service_request].status =
                    requests[tasks[t].service_request].status]_vars

C14_AdminUploadKeepsStatus ==
    [][resp'.op = "upload_proof" =>
       \A c \in UserIds, t \in TaskIds, f \in ProofInputs, n \in NotesInputs :
             ( /\ UserRole[c] = "admin"
               /\ UploadProof(c, t, f, n) )
             => /\ \A u \in DOMAIN tasks :
                      u \in DOMAIN tasks' /\ tasks'[u].status = tasks[u].status
                /\ requests' = requests]_vars

\* the only task ever created holds a proof file and notes and is still
\* assigned after a successful upload_proof: the upload was an admin's
C14_Witness ==
    /\ resp = [op |-> "upload_proof", result |-> "ok"]
    /\ nextTaskId = 2
    /\ \E t \in DOMAIN tasks :
          /\ tasks[t].status = "assigned"
          /\ tasks[t].proof_upload
          /\ tasks[t].notes = "done"

\* The properties of assign below are written contrapositively: a step
\* that starts where the case applies and does not end as stated is not a
\* step of the assign handler.

\* C15: an admin's assign of an approved worker W2 to a request that is
\* in_progress and has exactly one task, of another worker W1, sets
\* assigned_field_worker to W2, keeps the status in_progress, leaves W1's
\* task as it is and creates one task for W2 with status assigned: the
\* request then has exactly 2 tasks.
C15_ReassignAddsTask ==
    [][resp'.op = "assign" =>
       \A c \in UserIds, r \in RequestIds, w2 \in FieldWorkers, t1 \in TaskIds :
             ( /\ r \in DOMAIN requests
               /\ UserRole[c] = "admin"
               /\ requests[r].status = "in_progress"
               /\ TasksOf(tasks, r) = {t1}
               /\ tasks[t1].assigned_to # w2
               /\ users[w2].is_approved
               /\ ~( /\ resp' = [op |-> "assign", result |-> "ok"]
                     /\ r \in DOMAIN requests'
                     /\ requests'[r].assigned_field_worker = w2
                     /\ requests'[r].status = "in_progress"
                     /\ \A t \in DOMAIN tasks : t \in DOMAIN tasks' /\ tasks'[t] = tasks[t]
                     /\ \E t2 \in DOMAIN tasks' \ DOMAIN tasks :
                           /\ DOMAIN tasks' = DOMAIN tasks \cup {t2}
                           /\ tasks'[t2].service_request = r
                           /\ tasks'[t2].assigned_to = w2
                           /\ tasks'[t2].status = "assigned"
                     /\ Cardinality(TasksOf(tasks', r)) = 2 ) )
             => ~Assign(c, r, w2)]_vars

\* four calls (a create, an approval and two assigns, the last call an
\* assign) left an in_progress request with two assigned tasks of two
\* workers, the request pointing at the worker of the later task
C15_Witness ==
    /\ calls = 4
    /\ resp = [op |-> "assign", result |-> "ok"]
    /\ \A w \in FieldWorkers : users[w].is_approved
    /\ \E r \in DOMAIN requests, t1, t2 \in DOMAIN tasks :
          /\ requests[r].status = "in_progress"
          /\ t1 < t2
          /\ TasksOf(tasks, r) = {t1, t2}
          /\ tasks[t1].assigned_to # tasks[t2].assigned_to
          /\ tasks[t1].status = "assigned" /\ tasks[t2].status = "assigned"
          /\ requests[r].assigned_field_worker = tasks[t2].assigned_to

\* C16: a successful assign of a worker changes the request's status only
\* when it is open, to in_progress; an in_progress, completed or cancelled
\* request keeps its status.
C16_AssignStatusOnlyFromOpen ==
    [][resp'.op = "assign" =>
       \A c \in UserIds, r \in RequestIds, w \in UserIds :
             ( /\ r \in DOMAIN requests
               /\ resp' = [op |-> "assign", result |-> "ok"]
               /\ ~( /\ r \in DOMAIN requests'
                     /\ requests'[r].status =
                           IF requests[r].status = "open" THEN "in_progress"
                           ELSE requests[r].status ) )
             => ~Assign(c, r, w)]_vars

\* after one call, an assign, a cancelled request points at a field worker
\* and has that worker's task
C16_Witness ==
    /\ calls = 1
    /\ resp = [op |-> "assign", result |-> "ok"]
    /\ \E r \in DOMAIN requests :
          /\ requests[r].status = "cancelled"
          /\ requests[r].assigned_field_worker \in FieldWorkers
          /\ TasksOf(tasks, r) # {}

\* C17: an admin's assign whose worker id names no user, a user who is not
\* a field worker, or a field worker who is not approved fails with the
\* matching ValidationError, and the requests and the tasks are as before.
C17_InvalidWorkerRejected ==
    [][resp'.op = "assign" =>
       \A c \in UserIds, r \in RequestIds, w \in WorkerInputs \ {NoUser} :
             ( /\ r \in DOMAIN requests
               /\ UserRole[c] = "admin"
               /\ \/ w \notin UserIds
                  \/ UserRole[w] # "field_worker"
                  \/ ~users[w].is_approved
               /\ ~( /\ resp'.op = "assign"
                     /\ resp'.result = IF w \notin UserIds THEN "user_missing"
                                        ELSE IF UserRole[w] # "field_worker"
                                             THEN "not_field_worker"
                                             ELSE "not_approved"
                     /\ requests' = requests
                     /\ tasks' = tasks ) )
             => ~Assign(c, r, w)]_vars

\* an assign was refused because the field worker is not approved
C17_Witness ==
    /\ resp = [op |-> "assign", result |-> "not_approved"]
    /\ \E w \in FieldWorkers : ~users[w].is_approved
    /\ DOMAIN requests # {}

\* C18: assign called by a customer or a field worker fails with
\* PermissionDenied and changes no request and no task, whatever the
\* request id and the worker id are.
C18_AssignAdminOnly ==
    [][resp'.op = "assign" =>
       \A c \in UserIds, r \in RequestIds, w \in AssignInputs :
             ( /\ UserRole[c] # "admin"
               /\ ~( /\ resp' = [op |-> "assign", result |-> "permission_denied"]
                     /\ requests' = requests
                     /\ tasks' = tasks ) )
             => ~Assign(c, r, w)]_vars

\* an assign was refused for lack of permission while an open request
\* without a worker exists
C18_Witness ==
    /\ resp = [op |-> "assign", result |-> "permission_denied"]
    /\ \E r \in DOMAIN requests :
          /\ requests[r].status = "open"
          /\ requests[r].assigned_field_worker = NoUser

\* C19: an admin's assign with a null or omitted worker id clears
\* assigned_field_worker and changes nothing else: not the request's
\* status, and no task.
C19_UnassignOnlyClears ==
    [][resp'.op = "assign" =>
       \A c \in UserIds, r \in RequestIds, w \in {NoUser, OmittedWorker} :
             ( /\ r \in DOMAIN requests
               /\ UserRole[c] = "admin"
               /\ ~( /\ resp' = [op |-> "assign", result |-> "ok"]
                     /\ requests' = [requests EXCEPT ![r].assigned_field_worker = NoUser]
                     /\ tasks' = tasks ) )
             => ~Assign(c, r, w)]_vars

\* a request that is in_progress and has a task points at no worker after
\* a successful assign
C19_Witness ==
    /\ resp = [op |-> "assign", result |-> "ok"]
    /\ \E r \in DOMAIN requests :
          /\ requests[r].status = "in_progress"
          /\ requests[r].assigned_field_worker = NoUser
          /\ TasksOf(tasks, r) # {}

\* C20: every assign call creates at most one task and neither deletes nor
\* modifies a task that exists.
C20_AssignAdditive ==
    [][~( /\ \A t \in DOMAIN tasks : t \in DOMAIN tasks' /\ tasks'[t] = tasks[t]
          /\ Cardinality(DOMAIN tasks' \ DOMAIN tasks) <= 1 )
       => \A c \in UserIds, r \in RequestIds, w \in AssignInputs :
             ~Assign(c, r, w)]_vars

\* after a successful assign a request has the completed task of an
\* earlier worker, with its notes, next to the assigned task of another
C20_Witness ==
    /\ resp = [op |-> "assign", result |-> "ok"]
    /\ \E t1, t2 \in DOMAIN tasks :
          /\ t1 < t2
          /\ tasks[t1].service_request = tasks[t2].service_request
          /\ tasks[t1].assigned_to # tasks[t2].assigned_to
          /\ tasks[t1].status = "completed" /\ tasks[t1].notes = "done"
          /\ tasks[t2].status = "assigned"
          /\ requests[tasks[t2].service_request].assigned_field_worker =
                tasks[t2].assigned_to

\* C21: set_status and upload_proof called by someone who is neither an
\* admin nor the task's assignee change no task and no request: the
\* customer of the parent request gets PermissionDenied, a field worker
\* (and any other customer) gets NotFound.
C21_TaskWriteAssigneeOrAdmin ==
    [][resp'.op \in {"set_status", "upload_proof"} =>
       \A c \in UserIds, t \in TaskIds :
          ( /\ t \in DOMAIN tasks
            /\ UserRole[c] # "admin"
            /\ tasks[t].assigned_to # c
            /\ ~( /\ tasks' = tasks
                  /\ requests' = requests
                  /\ resp'.result =
                        IF /\ UserRole[c] = "customer"
                           /\ requests[tasks[t].service_request].customer = c
                        THEN "permission_denied" ELSE "not_found" ) )
          => /\ \A v \in TaskStatuses : ~SetStatus(c, t, v)
             /\ \A f \in ProofInputs, n \in NotesInputs : ~UploadProof(c, t, f, n)]_vars

\* a set_status call on an existing task was refused for lack of
\* permission: the caller was the customer of the parent request
C21_Witness ==
    /\ resp = [op |-> "set_status", result |-> "permission_denied"]
    /\ DOMAIN tasks # {}

C23_WorkerReadOnly ==
    [][\A c \in UserIds :
          UserRole[c] = "field_worker"
          => /\ \A r \in DOMAIN requests :
                   /\ r \in RequestQueryset(requests, c)
                   /\ RetrieveRequest(c, r) => resp'.result = "ok"
             /\ ( \/ CreateRequest(c)
                  \/ \E r \in RequestIds :
                        \/ DestroyRequest(c, r)
                        \/ \E d \in DescriptionInputs, u \in UrgencyInputs :
                              UpdateRequest(c, r, d, u)
                        \/ \E v \in RatingInputs : Rate(c, r, v)
                        \/ \E w \in AssignInputs : Assign(c, r, w) )
                => requests' = requests /\ resp'.result # "ok"]_vars

\* C24: a customer who retrieves, updates, deletes or rates a request owned
\* by another customer gets NotFound, not PermissionDenied, and the request
\* still exists and is unchanged.
C24_OtherCustomerNotFound ==
    [][resp'.op \in {"retrieve", "update", "destroy", "rate"} =>
       \A c \in UserIds, r \in RequestIds :
          ( /\ r \in DOMAIN requests
            /\ UserRole[c] = "customer"
            /\ requests[r].customer # c
            /\ ~( /\ resp'.result = "not_found"
                  /\ requests' = requests
                  /\ tasks' = tasks ) )
          => /\ ~RetrieveRequest(c, r)
             /\ ~DestroyRequest(c, r)
             /\ \A d \in DescriptionInputs, u \in UrgencyInputs :
                   ~UpdateRequest(c, r, d, u)
             /\ \A v \in RatingInputs : ~Rate(c, r, v)]_vars

\* every request id is in use and a delete answered NotFound: the caller
\* was a customer who does not own the request
C24_Witness ==
    /\ resp = [op |-> "destroy", result |-> "not_found"]
    /\ DOMAIN requests = RequestIds

\* the calls of caller c that answer as handler op, other than create and
\* rate: none of them is the step taken
NoCallBy(c, op) ==
    /\ op = "retrieve" => \A r \in RequestIds : ~RetrieveRequest(c, r)
    /\ op = "destroy" => \A r \in RequestIds : ~DestroyRequest(c, r)
    /\ op = "update" =>
          \A r \in RequestIds, d \in DescriptionInputs, u \in UrgencyInputs :
             ~UpdateRequest(c, r, d, u)
    /\ op = "assign" =>
          \A r \in RequestIds, w \in AssignInputs : ~Assign(c, r, w)
    /\ op = "retrieve_task" => \A t \in TaskIds : ~RetrieveTask(c, t)
    /\ op = "destroy_task" => \A t \in TaskIds : ~DestroyTask(c, t)
    /\ op = "set_status" =>
          \A t \in TaskIds, v \in TaskStatuses : ~SetStatus(c, t, v)
    /\ op = "upload_proof" =>
          \A t \in TaskIds, f \in ProofInputs, n \in NotesInputs :
             ~UploadProof(c, t, f, n)
    /\ op = "update_task" =>
          \A t \in TaskIds, r \in RequestIds, w \in AssigneeInputs :
             ~UpdateTask(c, t, r, w)

\* C25 as stated: no operation on a request or a task that an admin calls
\* is rejected with PermissionDenied.
C25_AdminNeverDenied ==
    [][resp'.result = "permission_denied" =>
       \A c \in UserIds :
          UserRole[c] = "admin"
          => /\ NoCallBy(c, resp'.op)
             /\ resp'.op = "create" => ~CreateRequest(c)
             /\ resp'.op = "rate" =>
                   \A r \in RequestIds, v \in RatingInputs : ~Rate(c, r, v)]_vars

\* C25 amended: an admin is never rejected with PermissionDenied when
\* reading, updating, deleting or assigning a request, or when reading,
\* updating, deleting, setting the status of or uploading proof for a task;
\* create and rate are reserved to customers: an admin's create, and an
\* admin's rate of an existing request, are rejected with PermissionDenied
\* and change nothing.
C25_AdminDeniedOnlyCreateAndRate ==
    [][\A c \in UserIds :
          UserRole[c] = "admin"
          => /\ resp'.result = "permission_denied" => NoCallBy(c, resp'.op)
             /\ (resp'.op = "create"
                   /\ ~(resp'.result = "permission_denied" /\ requests' = requests))
                => ~CreateRequest(c)
             /\ (resp'.op = "rate"
                   /\ ~(resp'.result = "permission_denied" /\ requests' = requests))
                => \A r \in DOMAIN requests, v \in RatingInputs : ~Rate(c, r, v)]_vars

\* three calls completed the only task through set_status: the last one,
\* from in_progress to completed, can only be an admin's
C25_Witness ==
    /\ calls = 3
    /\ nextTaskId = 2
    /\ resp = [op |-> "set_status", result |-> "ok"]
    /\ \E t \in DOMAIN tasks :
          /\ tasks[t].status = "completed"
          /\ tasks[t].notes = "" /\ ~tasks[t].proof_upload

\* C26: rate called by an admin, a field worker or a customer who does not
\* own the request never succeeds and never changes a rating, also when the
\* request is completed.
C26_RateOwnerOnly ==
    [][resp'.op = "rate" =>
       \A c \in UserIds, r \in RequestIds :
          ( /\ r \in DOMAIN requests
            /\ ~(UserRole[c] = "customer" /\ requests[r].customer = c)
            /\ ~(requests' = requests /\ resp'.result # "ok") )
          => \A v \in RatingInputs : ~Rate(c, r, v)]_vars

\* a rate call was refused for lack of permission while every request is
\* completed and unrated
C26_Witness ==
    /\ resp = [op |-> "rate", result |-> "permission_denied"]
    /\ DOMAIN requests # {}
    /\ \A r \in DOMAIN requests :
          requests[r].status = "completed" /\ requests[r].rating = NoRating

\* C27: rate by the owning customer on a request that is not completed
\* fails with the error that rating is allowed only when the status is
\* completed, and the rating stays none; rate with a value outside 1..5 on
\* a completed request fails with a ValidationError and the rating stays as
\* it was.
C27_RateRejected ==
    [][resp'.op = "rate" =>
       \A c \in UserIds, r \in RequestIds, v \in RatingInputs :
          ( /\ r \in DOMAIN requests
            /\ UserRole[c] = "customer"
            /\ requests[r].customer = c
            /\ \/ /\ requests[r].status # "completed"
                  /\ ~( /\ resp'.result = "rating_not_completed"
                        /\ requests' = requests
                        /\ requests[r].rating = NoRating )
               \/ /\ requests[r].status = "completed"
                  /\ v # NoRating /\ ~(1 <= v /\ v <= 5)
                  /\ ~( /\ resp'.result = "rating_range"
                        /\ requests' = requests ) )
          => ~Rate(c, r, v)]_vars

\* a rate call was refused because the request is not completed, and no
\* request is completed or rated
C27_Witness ==
    /\ resp = [op |-> "rate", result |-> "rating_not_completed"]
    /\ DOMAIN requests # {}
    /\ \A r \in DOMAIN requests :
          requests[r].status # "completed" /\ requests[r].rating = NoRating

\* the answers that stand for NotFound, PermissionDenied and ValidationError
Failures ==
    {"not_found", "permission_denied", "invalid_transition", "proof_required",
     "user_missing", "not_field_worker", "not_approved",
     "rating_not_completed", "rating_range"}

\* C28: an assign, set_status, upload_proof or rate call that ends with
\* NotFound, PermissionDenied or ValidationError leaves every request row and
\* every task row as it was before the call.
C28_FailureChangesNothing ==
    [][( /\ resp'.op \in {"assign", "set_status", "upload_proof", "rate"}
         /\ resp'.result \in Failures )
       => /\ requests' = requests
          /\ tasks' = tasks]_vars

\* an assign was refused because the worker id names no user, with requests
\* and tasks in the tables
C28_Witness ==
    /\ resp = [op |-> "assign", result |-> "user_missing"]
    /\ DOMAIN requests # {}
    /\ DOMAIN tasks # {}

\* C29: whenever assign writes a worker W into a request's
\* assigned_field_worker, W is a field worker and approved at the moment of
\* the write, also when a reject of W runs between the steps of the assign;
\* and a reject, the one step that changes a user, leaves every request and
\* every task as it was.
C29_ApprovedAtWrite ==
    [][ /\ \A p \in Procs :
              ( /\ procs[p].pc = "assign_save"
                /\ procs'[p].pc # "assign_save"
                /\ procs[p].w # NoUser )
              => /\ users[procs[p].w].role = "field_worker"
                 /\ users[procs[p].w].is_approved
        /\ users' # users => (requests' = requests /\ tasks' = tasks)
      ]_vars

\* C30: once a task exists its assigned_to and its service_request never
\* change, whatever operation runs; a task that is still there after a step
\* has the worker and the request it had before the step.
C30_TaskReferencesImmutable ==
    [][\A t \in DOMAIN tasks \cap DOMAIN tasks' :
          /\ tasks'[t].assigned_to = tasks[t].assigned_to
          /\ tasks'[t].service_request = tasks[t].service_request]_vars

\* C31: a delete of a task called by anyone who is not an admin, the task's
\* own assignee included, is rejected with PermissionDenied or NotFound and
\* leaves the task table as it was.
C31_TaskDeleteAdminOnly ==
    [][resp'.op = "destroy_task" =>
       \A c \in UserIds, t \in TaskIds :
          ( /\ t \in DOMAIN tasks
            /\ UserRole[c] # "admin"
            /\ ~( /\ tasks' = tasks
                  /\ resp'.result \in {"permission_denied", "not_found"} ) )
          => ~DestroyTask(c, t)]_vars

\* C32: on a request that exists before and after a step, the customer
\* never changes, assigned_field_worker changes only in a successful assign,
\* and status changes only in a successful assign (open to in_progress) or
\* in a successful set_status or upload_proof (to completed); create,
\* update and rate change none of the three.
C32_RequestFrame ==
    [][\A r \in DOMAIN requests \cap DOMAIN requests' :
          /\ requests'[r].customer = requests[r].customer
          /\ requests'[r].assigned_field_worker # requests[r].assigned_field_worker
                => resp' = [op |-> "assign", result |-> "ok"]
          /\ requests'[r].status # requests[r].status
                => \/ /\ resp' = [op |-> "assign", result |-> "ok"]
                      /\ requests[r].status = "open"
                      /\ requests'[r].status = "in_progress"
                   \/ /\ resp'.op \in {"set_status", "upload_proof"}
                      /\ resp'.result = "ok"
                      /\ requests'[r].status = "completed"
          /\ resp'.op \in {"create", "update", "rate"}
                => /\ requests'[r].status = requests[r].status
                   /\ requests'[r].assigned_field_worker =
                         requests[r].assigned_field_worker]_vars

\* an update went through on a request that is assigned and in progress
C32_Witness ==
    /\ resp = [op |-> "update", result |-> "ok"]
    /\ \E r \in DOMAIN requests :
          /\ requests[r].urgency \in UrgencyInputs
          /\ requests[r].assigned_field_worker # NoUser
          /\ requests[r].status = "in_progress"

\* C33: once a request has a field worker assigned, an update or
\* partial_update by the owning customer is rejected and leaves the
\* request's description (and every other field) as it was.
C33_NoEditAfterAssignment ==
    [][resp'.op = "update" =>
       \A c \in CustomerIds, r \in RequestIds :
          ( /\ r \in DOMAIN requests
            /\ requests[r].customer = c
            /\ requests[r].assigned_field_worker # NoUser
            /\ ~( /\ requests' = requests
                  /\ resp'.result # "ok" ) )
          => \A d \in DescriptionInputs, u \in UrgencyInputs :
                ~UpdateRequest(c, r, d, u)]_vars

\* C34: a user registered as field_worker starts unapproved and one
\* registered as customer or admin starts approved; afterwards a user's row
\* changes only in a successful approve (is_approved becomes true) or reject
\* (is_approved becomes false) of a field worker, never in one called by a
\* non-admin; and an assign that succeeds with a worker names a field worker
\* whose is_approved is true at that time.
C34_ApprovalLifecycle ==
    [][ /\ Len(users') > Len(users)
           => /\ resp' = [op |-> "register", result |-> "ok"]
              /\ users'[Len(users')].is_approved =
                    (users'[Len(users')].role # "field_worker")
        /\ \A u \in DOMAIN users :
              users'[u] # users[u]
              => /\ resp'.op \in {"approve", "reject"}
                 /\ resp'.result = "ok"
                 /\ users[u].role = "field_worker"
                 /\ users'[u] = [users[u] EXCEPT
                                   !.is_approved = (resp'.op = "approve")]
        /\ resp'.op \in {"approve", "reject"}
           => \A c \in DOMAIN users, u \in RegUserInputs \ {NoUser} :
                 (users[c].role # "admin" /\ users' # users)
                 => /\ ~approve_field_worker(c, u)
                    /\ ~reject_field_worker(c, u)
        /\ resp' = [op |-> "assign", result |-> "ok"]
           => \A c \in DOMAIN users, r \in RequestIds,
                 w \in RegUserInputs \ {NoUser} :
                 ~( /\ w \in DOMAIN users
                    /\ users[w].role = "field_worker"
                    /\ users[w].is_approved )
                 => ~Assign(c, r, w)
      ]_vars

\* after an admin, a customer and a field worker registered, the customer
\* created a request and the admin approved the worker, the worker has just
\* been assigned to the request
C34_Witness ==
    /\ resp = [op |-> "assign", result |-> "ok"]
    /\ calls = MaxRegCalls
    /\ \E r \in DOMAIN requests, w \in DOMAIN users :
          /\ requests[r].assigned_field_worker = w
          /\ users[w] = [role |-> "field_worker", is_approved |-> TRUE]

\* the number of ids in S, counted one id at a time
RECURSIVE Tally(_)
Tally(S) == IF S = {} THEN 0 ELSE LET x == CHOOSE y \in S : TRUE
                                   IN 1 + Tally(S \ {x})

\* C35: in every reachable state each dashboard shows the counts of the
\* store: worker_summary for a field worker W the number of tasks assigned
\* to W per task status, customer_summary for a customer C the number of
\* C's requests in total and per status open, in_progress, completed,
\* admin_overview for an admin the global numbers, with tasks_total the sum
\* of the three per-status task counts; and each dashboard answers 403 to
\* every caller of another role.
C35_DashboardCounts ==
    \A c \in UserIds :
       /\ LET out == worker_summary(c)
              N(st) == Tally({t \in DOMAIN tasks :
                                tasks[t].assigned_to = c /\ tasks[t].status = st})
          IN IF users[c].role = "field_worker"
             THEN /\ out.code = 200
                  /\ out.assigned = N("assigned")
                  /\ out.in_progress = N("in_progress")
                  /\ out.completed = N("completed")
             ELSE out.code = 403
       /\ LET out == customer_summary(c)
              Own == {r \in DOMAIN requests : requests[r].customer = c}
              N(st) == Tally({r \in Own : requests[r].status = st})
          IN IF users[c].role = "customer"
             THEN /\ out.code = 200
                  /\ out.requests_total = Tally(Own)
                  /\ out.requests_open = N("open")
                  /\ out.requests_in_progress = N("in_progress")
                  /\ out.requests_completed = N("completed")
             ELSE out.code = 403
       /\ LET out == admin_overview(c)
              R(st) == Tally({r \in DOMAIN requests : requests[r].status = st})
              T(st) == Tally({t \in DOMAIN tasks : tasks[t].status = st})
          IN IF users[c].role = "admin"
             THEN /\ out.code = 200
                  /\ out.users_total = Len(users)
                  /\ out.service_requests_total = Tally(DOMAIN requests)
                  /\ out.service_requests_open = R("open")
                  /\ out.service_requests_in_progress = R("in_progress")
                  /\ out.service_requests_completed = R("completed")
                  /\ out.tasks_total = Tally(DOMAIN tasks)
                  /\ out.tasks_assigned = T("assigned")
                  /\ out.tasks_in_progress = T("in_progress")
                  /\ out.tasks_completed = T("completed")
                  /\ out.tasks_total = out.tasks_assigned
                                        + out.tasks_in_progress
                                        + out.tasks_completed
             ELSE out.code = 403

\* a field worker who holds one assigned and one completed task has just
\* read the worker dashboard
C35_Witness ==
    /\ resp = [op |-> "worker_summary", result |-> "ok"]
    /\ \E w \in FieldWorkers :
          /\ worker_summary(w).code = 200
          /\ worker_summary(w).assigned = 1
          /\ worker_summary(w).completed = 1

\* the answer C36 expects from set_status on an existing task: the access
\* policy speaks first, then the state machine, then the proof-upload rule
C36_Expected(c, t, v) ==
    IF UserRole[c] # "admin" /\ tasks[t].assigned_to # c
    THEN IF /\ UserRole[c] = "customer"
            /\ requests[tasks[t].service_request].customer = c
         THEN "permission_denied" ELSE "not_found"
    ELSE IF ~LegalMove(tasks[t].status, v) THEN "invalid_transition"
    ELSE IF UserRole[c] # "admin" /\ v = "completed" THEN "proof_required"
    ELSE "ok"

C37_RequestStatusForward ==
    [][\A r \in DOMAIN requests \cap DOMAIN requests' :
          requests'[r].status # requests[r].status
          => /\ requests[r].status # "completed"
             /\ requests'[r].status \notin {"open", "cancelled"}
             /\ requests'[r].status = "in_progress"
                   => requests[r].status = "open"]_vars

\* a completed request has just been unassigned and is still completed
C37_Witness ==
    /\ resp = [op |-> "assign", result |-> "ok"]
    /\ \E r \in DOMAIN requests :
          /\ requests[r].status = "completed"
          /\ requests[r].assigned_field_worker = NoUser
          /\ \E t \in DOMAIN tasks :
                /\ tasks[t].service_request = r
                /\ tasks[t].status = "completed"

\* C38: when an assign on a request interleaves with a set_status or an
\* upload_proof that completes one of its tasks, no write of one call
\* undoes the write of the other: a request that is completed stays
\* completed in every step, and assigned_field_worker changes only in the
\* save steps of an assign on that request.
C38_NoLostUpdate ==
    [][\A r \in DOMAIN requests \cap DOMAIN requests' :
          /\ requests[r].status = "completed"
                => requests'[r].status = "completed"
          /\ requests'[r].assigned_field_worker # requests[r].assigned_field_worker
                => \E p \in Procs :
                      /\ procs[p].pc \in {"assign_save", "assign_status"}
                      /\ procs'[p].pc # procs[p].pc
                      /\ procs[p].r = r]_vars

\* C39: whenever a step moves a request to completed, a task of that
\* request is completed in the same step and that task's assigned_to is the
\* request's assigned_field_worker: the task of a worker who has been
\* unassigned or replaced does not complete the request.
C39_CascadeByCurrentWorker ==
    [][\A r \in DOMAIN requests \cap DOMAIN requests' :
          ( /\ requests[r].status # "completed"
            /\ requests'[r].status = "completed" )
          => \E t \in DOMAIN tasks \cap DOMAIN tasks' :
                /\ tasks[t].service_request = r
                /\ tasks[t].status # "completed"
                /\ tasks'[t].status = "completed"
                /\ tasks[t].assigned_to = requests[r].assigned_field_worker]_vars

\* C40: after a successful assign of a worker W to a request R there is a
\* task of the pair (R, W) that is not completed, also when W already has a
\* completed task on R.
C40_AssignLeavesOpenTask ==
    [][resp' = [op |-> "assign", result |-> "ok"] =>
       \A c \in UserIds, r \in RequestIds, w \in FieldWorkers :
          ( /\ r \in DOMAIN requests
            /\ OpenTasksOfPair(tasks', r, w) = {} )
          => ~Assign(c, r, w)]_vars

====
